---- MODULE Spec2Model ----
(***************************************************************************)
(* Model of the WebSocket connection registry and broadcast fan-out of the *)
(* chat backend.  Two variants of the same component live in the source:  *)
(*   "app"     - src/app.py           (single room 1, disconnect(user_id)) *)
(*   "backend" - src/backend/main.py  (rooms by chat_id, leave broadcast   *)
(*                                     scheduled with asyncio.create_task) *)
(* Every coroutine is a task with a program counter; a step of the model   *)
(* is the code a task runs between two awaits of the asyncio event loop.   *)
(* active_connections[room] is a Python dict: an insertion-ordered entry   *)
(* table in which a deleted key leaves a hole, iterated by an iterator     *)
(* that raises RuntimeError when the dict changed size under it.           *)
(***************************************************************************)
EXTENDS Integers, Sequences, FiniteSets, TLC

\* ----------------------------------------------------------------- bounds
MaxSess == 2     \* websockets in the specification of all operations
WideSess == 3    \* websockets in the specification of the registry core
NumUsers == 3
NumRooms == 2
MaxHttp == 1     \* send_message requests in flight
MaxApi == 1      \* send_to_user calls in flight

Sess == 1..(IF WideSess > MaxSess THEN WideSess ELSE MaxSess)
Users == 1..NumUsers
Rooms == 1..NumRooms
Https == 1..MaxHttp
Apis == 1..MaxApi

VARIABLES
    variant,    \* which source file runs: "app" or "backend"
    reg,        \* manager.active_connections: room -> dict (entry table)
    hs,         \* websocket_endpoint coroutines, one per websocket
    transport,  \* state of each websocket's transport
    http,       \* send_message request coroutines
    api,        \* send_to_user calls
    tasks,      \* leave broadcasts scheduled by asyncio.create_task
    removed,    \* history: websockets that disconnect deleted from reg
    fin         \* history: the broadcast call that ended in the last step

vars == <<variant, reg, hs, transport, http, api, tasks, removed, fin>>

\* ------------------------------------------------------- the Python dict
Tomb == [uid |-> 0, ws |-> 0]

LiveIdx(ents) == {i \in 1..Len(ents) : ents[i].uid # 0}

DictLen(ents) == Cardinality(LiveIdx(ents))

DictHas(ents, u) == \E i \in 1..Len(ents) : ents[i].uid = u

DictIdx(ents, u) == CHOOSE i \in 1..Len(ents) : ents[i].uid = u

DictGet(ents, u) == ents[DictIdx(ents, u)].ws

DictValues(ents) == {ents[i].ws : i \in LiveIdx(ents)}

\* d[u] = s with the key always appended: what a registry keeping a list
\* of connections per user would do
DictSetAppend(ents, u, s) == Append(ents, [uid |-> u, ws |-> s])

\* d[u] = s
DictSet(ents, u, s) ==
    IF DictHas(ents, u)
    THEN [ents EXCEPT ![DictIdx(ents, u)] = [uid |-> u, ws |-> s]]
    ELSE Append(ents, [uid |-> u, ws |-> s])

\* del d[u] that leaves the entry in place
DictDelKeep(ents, u) == ents

\* del d[u]
DictDel(ents, u) == [ents EXCEPT ![DictIdx(ents, u)] = Tomb]

NoRoom(g) == [present |-> FALSE, gen |-> g, ents |-> <<>>]

Registered(rg, r, u) == rg[r].present /\ DictHas(rg[r].ents, u)

Occupant(rg, r, u) == IF Registered(rg, r, u) THEN DictGet(rg[r].ents, u) ELSE 0

RoomSessions(rg, r) == IF rg[r].present THEN DictValues(rg[r].ents) ELSE {}

RoomCount(rg, r) == IF rg[r].present THEN DictLen(rg[r].ents) ELSE 0

AllRegistered(rg) == UNION {RoomSessions(rg, r) : r \in Rooms}

\* ------------------------------------------------- one broadcast call
\* The frame of one call of broadcast / broadcast_to_chat: the dict
\* iterator (gen, pos, used, len), the arguments, the websocket whose
\* send_json is awaited (cur), and the history of the call: the websockets
\* registered when it was invoked (snap), those it called send_json on (att),
\* with success (okd) or failure (bad), the send_message broadcasts of the
\* same sender that were in flight when it was invoked (older), and the
\* pairs <<h, s>> where it called send_json on s before broadcast h did
\* (early).
NoFrame ==
    [room |-> 0, gen |-> 0, pos |-> 0, used |-> 0, len |-> 0, excl |-> 0,
     kind |-> "none", about |-> 0, count |-> 0, evict |-> 0,
     cur |-> 0, curuid |-> 0,
     snap |-> {}, att |-> {}, okd |-> {}, bad |-> {}, gone |-> {},
     older |-> {}, early |-> {}, row |-> "none", acct |-> "none"]

\* iter(self.active_connections[chat_id].items())
NewFrame(rg, gone, r, excl, kind, about, count, evict) ==
    [room |-> r, gen |-> rg[r].gen, pos |-> 1,
     used |-> RoomCount(rg, r), len |-> RoomCount(rg, r), excl |-> excl,
     kind |-> kind, about |-> about, count |-> count, evict |-> evict,
     cur |-> 0, curuid |-> 0,
     snap |-> {rg[r].ents[i].ws : i \in {j \in LiveIdx(rg[r].ents) : rg[r].ents[j].uid # excl}},
     att |-> {}, okd |-> {}, bad |-> {}, gone |-> gone,
     older |-> {}, early |-> {}, row |-> "none", acct |-> "none"]

SetMin(S) == CHOOSE x \in S : \A y \in S : x <= y

\* a registry that keeps the websockets of all rooms in the dict of room 1
IterEntsFlat(rg, f) ==
    IF rg[1].present THEN rg[1].ents ELSE <<>>

\* the dict the iterator of frame f walks: the room's dict as long as it
\* is the same object, else the emptied dict the room was pruned from
IterEnts(rg, f) ==
    IF rg[f.room].present /\ rg[f.room].gen = f.gen THEN rg[f.room].ents ELSE <<>>

\* next(iterator) of a dict items view
IterStep(rg, f) ==
    LET ents == IterEnts(rg, f)
        cand == {i \in LiveIdx(ents) : i >= f.pos}
    IN  IF f.used # DictLen(ents) THEN [st |-> "raise", i |-> 0]
        ELSE IF cand = {} THEN [st |-> "stop", i |-> 0]
        ELSE IF f.len = 0 THEN [st |-> "raise", i |-> 0]
        ELSE [st |-> "item", i |-> SetMin(cand)]

\* a for loop of broadcast that leaves out the test of exclude_user
RECURSIVE AdvanceAll(_, _)
AdvanceAll(rg, f) ==
    LET r == IterStep(rg, f) IN
    IF r.st = "raise" THEN [st |-> "raise", f |-> f]
    ELSE IF r.st = "stop" THEN [st |-> "return", f |-> f]
    ELSE LET e == IterEnts(rg, f)[r.i]
             f2 == [f EXCEPT !.pos = r.i + 1, !.len = @ - 1]
         IN  [st |-> "await",
              f |-> [f2 EXCEPT !.cur = e.ws, !.curuid = e.uid,
                               !.att = @ \cup {e.ws}]]

\* the for loop of broadcast, run up to its next await, its return or the
\* exception that leaves it
RECURSIVE Advance(_, _)
Advance(rg, f) ==
    LET r == IterStep(rg, f) IN
    IF r.st = "raise" THEN [st |-> "raise", f |-> f]
    ELSE IF r.st = "stop" THEN [st |-> "return", f |-> f]
    ELSE LET e == IterEnts(rg, f)[r.i]
             f2 == [f EXCEPT !.pos = r.i + 1, !.len = @ - 1]
         IN  IF e.uid = f.excl
             THEN Advance(rg, f2)
             ELSE [st |-> "await",
                   f |-> [f2 EXCEPT !.cur = e.ws, !.curuid = e.uid,
                                    !.att = @ \cup {e.ws}]]

\* broadcast(chat_id, message, exclude_user) from its call to its first await
BStart(rg, gone, r, excl, kind, about, count, evict) ==
    IF ~rg[r].present
    THEN [st |-> "return", f |-> [NoFrame EXCEPT !.room = r, !.excl = excl,
                                   !.kind = kind, !.about = about,
                                   !.count = count, !.evict = evict,
                                   !.gone = gone]]
    ELSE Advance(rg, NewFrame(rg, gone, r, excl, kind, about, count, evict))

\* ------------------------------------------------------------ disconnect
NewTask(r, u, n) == [st |-> "new", room |-> r, about |-> u, count |-> n, f |-> NoFrame]

\* the shared state a synchronous piece of code reads and writes
World == [reg |-> reg, tasks |-> tasks, removed |-> removed]

\* a disconnect that keeps the room's dict when it has become empty
DisconnectNoPrune(v, w, r, u) ==
    IF ~Registered(w.reg, r, u) THEN w
    ELSE LET s == Occupant(w.reg, r, u)
             e2 == DictDel(w.reg[r].ents, u)
             n == DictLen(e2)
         IN  [reg |-> [w.reg EXCEPT ![r].ents = e2],
              tasks |-> IF v = "backend"
                        THEN Append(w.tasks, NewTask(r, u, n))
                        ELSE w.tasks,
              removed |-> w.removed \cup {s}]

\* a disconnect without its membership test, which notifies the room of a
\* leave also when the slot is empty
DisconnectUnguarded(v, w, r, u) ==
    IF ~Registered(w.reg, r, u)
    THEN [w EXCEPT !.tasks = Append(@, NewTask(r, u, RoomCount(w.reg, r)))]
    ELSE LET s == Occupant(w.reg, r, u)
             e2 == DictDel(w.reg[r].ents, u)
             n == DictLen(e2)
         IN  [reg |-> [w.reg EXCEPT ![r] = IF n = 0 THEN NoRoom(@.gen)
                                            ELSE [@ EXCEPT !.ents = e2]],
              tasks |-> Append(w.tasks, NewTask(r, u, n)),
              removed |-> w.removed \cup {s}]

\* ConnectionManager.disconnect
Disconnect(v, w, r, u) ==
    IF ~Registered(w.reg, r, u) THEN w
    ELSE LET s == Occupant(w.reg, r, u)
             e2 == DictDel(w.reg[r].ents, u)
             n == DictLen(e2)
         IN  [reg |-> [w.reg EXCEPT ![r] = IF n = 0 THEN NoRoom(@.gen)
                                            ELSE [@ EXCEPT !.ents = e2]],
              tasks |-> IF v = "backend"
                        THEN Append(w.tasks, NewTask(r, u, n))
                        ELSE w.tasks,
              removed |-> w.removed \cup {s}]

\* a broadcast whose except branch schedules the leave notification but
\* leaves the failed websocket in the registry
ResumeRespawn(v, w, f, tr) ==
    LET ok == tr[f.cur] = "open"
        f1 == IF ok THEN [f EXCEPT !.okd = @ \cup {f.cur}, !.cur = 0, !.curuid = 0]
              ELSE [f EXCEPT !.bad = @ \cup {f.cur}, !.cur = 0, !.curuid = 0]
        w1 == IF ok \/ v # "backend" THEN w
              ELSE [w EXCEPT !.tasks =
                        Append(@, NewTask(f.room, f.curuid, RoomCount(w.reg, f.room)))]
        a == Advance(w1.reg, f1)
    IN  [st |-> a.st, f |-> a.f, w |-> w1]

\* the code of broadcast that runs when the awaited send_json completes:
\* the except branch when it failed, then the loop up to the next await
Resume(v, w, f, tr) ==
    LET ok == tr[f.cur] = "open"
        f1 == IF ok THEN [f EXCEPT !.okd = @ \cup {f.cur}, !.cur = 0, !.curuid = 0]
              ELSE [f EXCEPT !.bad = @ \cup {f.cur}, !.cur = 0, !.curuid = 0]
        w1 == IF ok THEN w ELSE Disconnect(v, w, f.room, f.curuid)
        a == Advance(w1.reg, f1)
    IN  [st |-> a.st, f |-> a.f, w |-> w1]

\* ------------------------------------------------------------- the tasks
\* In the actions a value that is computed once and then used is bound by
\* \E x \in {e}, which evaluates e once.
NoHandler == [pc |-> "idle", user |-> 0, room |-> 0, f |-> NoFrame,
              old |-> 0, end |-> "none", auth |-> "none"]

NoFin == [f |-> NoFrame, res |-> "none", who |-> "none"]

Fin(f, res, who) == [f |-> f, res |-> res, who |-> who]

SetWorld(w) == reg' = w.reg /\ tasks' = w.tasks /\ removed' = w.removed

Init ==
    /\ variant \in {"app", "backend"}
    /\ reg = [r \in Rooms |-> NoRoom(0)]
    /\ hs = [s \in Sess |-> NoHandler]
    /\ transport = [s \in Sess |-> "none"]
    /\ http = [h \in Https |-> [pc |-> "idle", f |-> NoFrame]]
    /\ api = [a \in Apis |-> [pc |-> "idle", room |-> 0, user |-> 0, tgt |-> 0]]
    /\ tasks = <<>>
    /\ removed = {}
    /\ fin = NoFin

Started == {s \in Sess : hs[s].pc # "idle"}

UsedUsers == {hs[s].user : s \in Started}

UsedRooms == {hs[s].room : s \in Started}

\* where websocket_endpoint goes on when connect has returned
AfterConnect == IF variant = "app" THEN "hello" ELSE "recv"

\* the peer of websocket x went away before the awaited call on x completes
\* (drop): from then on every send and receive on x fails
PeerGone(tr, x, drop) ==
    IF drop /\ tr[x] \in {"open", "stalled"} THEN [tr EXCEPT ![x] = "peer"] ELSE tr

\* the peer of websocket x is connected but has stopped reading: a
\* send_json awaited on x does not complete (the transport's write buffer
\* stays full), while frames the peer sent can still be received
Stalled(tr, x) == x # 0 /\ tr[x] = "stalled"

\* receive_json on x can still return a frame
Readable(tr, x) == tr[x] \in {"open", "stalled"}

\* websocket.close(), and the ASGI server closing the connection of an
\* endpoint that has ended
Closed(tr, s) == [tr EXCEPT ![s] = "closed"]

\* websocket_endpoint ends; ranDisc tells whether it ran manager.disconnect
Ended(h, ranDisc) ==
    [h EXCEPT !.pc = "done", !.f = NoFrame, !.old = 0,
              !.end = IF ranDisc THEN "disc" ELSE "nodisc"]

\* an endpoint that stores the websocket in the registry when the upgrade
\* request arrives, before websocket.accept() has completed
NewConnEager(s, u, r) ==
    /\ hs[s].pc = "idle"
    /\ \A t \in Sess : t < s => hs[t].pc # "idle"
    /\ \A v \in Users : v < u => v \in UsedUsers
    /\ \A q \in Rooms : q < r => q \in UsedRooms
    /\ variant = "app" => r = 1
    /\ hs' = [hs EXCEPT ![s] = [NoHandler EXCEPT !.pc = "accept", !.user = u, !.room = r,
                                                 !.auth = "accepted"]]
    /\ transport' = [transport EXCEPT ![s] = "open"]
    /\ fin' = NoFin
    /\ reg' = [reg EXCEPT ![r] = [present |-> TRUE,
                                  gen |-> IF @.present THEN @.gen ELSE @.gen + 1,
                                  ents |-> DictSet(IF @.present THEN @.ents ELSE <<>>, u, s)]]
    /\ UNCHANGED <<variant, http, api, tasks, removed>>

\* a client opens /ws/{user_id} (app) or /ws/{chat_id}/{user_id} (backend):
\* websocket_endpoint starts and awaits websocket.accept().  Websockets are
\* numbered in the order they arrive, users and chats in the order they
\* first appear.
NewConn(s, u, r) ==
    /\ hs[s].pc = "idle"
    /\ \A t \in Sess : t < s => hs[t].pc # "idle"
    /\ \A v \in Users : v < u => v \in UsedUsers
    /\ \A q \in Rooms : q < r => q \in UsedRooms
    /\ variant = "app" => r = 1
    /\ hs' = [hs EXCEPT ![s] = [NoHandler EXCEPT !.pc = "accept", !.user = u, !.room = r,
                                                 !.auth = "accepted"]]
    /\ transport' = [transport EXCEPT ![s] = "open"]
    /\ fin' = NoFin
    /\ UNCHANGED <<variant, reg, http, api, tasks, removed>>

\* what POST /api/auth/telegram answered to a client that opens a websocket
\* without a successful authentication: an error, or it was never called
Unauthenticated == {"rejected", "never"}

\* the same upgrade request from a client whose authentication failed or
\* that never authenticated: the path carries the user id (and chat id) and
\* websocket_endpoint takes no credential and calls no authentication
NewConnAnon(s, u, r, a) ==
    /\ hs[s].pc = "idle"
    /\ \A t \in Sess : t < s => hs[t].pc # "idle"
    /\ \A v \in Users : v < u => v \in UsedUsers
    /\ \A q \in Rooms : q < r => q \in UsedRooms
    /\ variant = "app" => r = 1
    /\ hs' = [hs EXCEPT ![s] = [NoHandler EXCEPT !.pc = "accept", !.user = u, !.room = r,
                                                 !.auth = a]]
    /\ transport' = [transport EXCEPT ![s] = "open"]
    /\ fin' = NoFin
    /\ UNCHANGED <<variant, reg, http, api, tasks, removed>>

\* a connect that takes the online_count of its join event before it stores
\* the websocket
RegisterCountBefore(s, rg, ev) ==
    \E h \in {hs[s]} :
    \E rg2 \in {[rg EXCEPT ![h.room].ents = DictSet(@, h.user, s)]} :
    \E B \in {BStart(rg2, removed, h.room, h.user, "join", h.user,
                     RoomCount(rg, h.room), ev)} :
        /\ reg' = rg2
        /\ hs' = [hs EXCEPT ![s] =
                    IF B.st = "await"
                    THEN [h EXCEPT !.pc = "join", !.f = B.f, !.old = 0]
                    ELSE [h EXCEPT !.pc = AfterConnect, !.f = NoFrame, !.old = 0]]
        /\ fin' = IF B.st = "await" THEN NoFin ELSE Fin(B.f, B.st, "connect")
        /\ UNCHANGED <<variant, http, api, tasks, removed>>

\* self.active_connections[chat_id][user_id] = websocket, then the join
\* broadcast up to its first await; ev is the websocket this connect found
\* in the slot (0 if none)
Register(s, rg, ev) ==
    \E h \in {hs[s]} :
    \E rg2 \in {[rg EXCEPT ![h.room].ents = DictSet(@, h.user, s)]} :
    \E B \in {BStart(rg2, removed, h.room, h.user, "join", h.user,
                     RoomCount(rg2, h.room), ev)} :
        /\ reg' = rg2
        /\ hs' = [hs EXCEPT ![s] =
                    IF B.st = "await"
                    THEN [h EXCEPT !.pc = "join", !.f = B.f, !.old = 0]
                    ELSE [h EXCEPT !.pc = AfterConnect, !.f = NoFrame, !.old = 0]]
        /\ fin' = IF B.st = "await" THEN NoFin ELSE Fin(B.f, B.st, "connect")
        /\ UNCHANGED <<variant, http, api, tasks, removed>>

\* connect resumes after websocket.accept()
Accept(s, drop) ==
    /\ hs[s].pc = "accept"
    /\ \E h \in {hs[s]} :
       \E tr \in {PeerGone(transport, s, drop)} :
       \E rg1 \in {IF reg[h.room].present THEN reg
                    ELSE [reg EXCEPT ![h.room] =
                            [present |-> TRUE, gen |-> @.gen + 1, ents |-> <<>>]]} :
           IF tr[s] # "open"
           THEN \* accept() raises: the endpoint ends outside its try block
                /\ hs' = [hs EXCEPT ![s] = Ended(h, FALSE)]
                /\ transport' = Closed(tr, s)
                /\ fin' = NoFin
                /\ UNCHANGED <<variant, reg, http, api, tasks, removed>>
           ELSE IF variant = "app" /\ DictHas(rg1[h.room].ents, h.user)
           THEN \* await self.active_connections[1][user_id].close()
                LET o == DictGet(rg1[h.room].ents, h.user) IN
                /\ hs' = [hs EXCEPT ![s] = [h EXCEPT !.pc = "close_old", !.old = o]]
                /\ transport' = Closed(tr, o)
                /\ reg' = rg1
                /\ fin' = NoFin
                /\ UNCHANGED <<variant, http, api, tasks, removed>>
           ELSE /\ Register(s, rg1, Occupant(rg1, h.room, h.user))
                /\ transport' = tr

\* connect resumes after the close() of the previous websocket
CloseOldDone(s) ==
    /\ hs[s].pc = "close_old"
    /\ IF ~reg[hs[s].room].present
       THEN \* KeyError: the room was pruned meanwhile
            /\ hs' = [hs EXCEPT ![s] = Ended(hs[s], FALSE)]
            /\ transport' = Closed(transport, s)
            /\ fin' = NoFin
            /\ UNCHANGED <<variant, reg, http, api, tasks, removed>>
       ELSE /\ Register(s, reg, hs[s].old)
            /\ UNCHANGED transport

\* the send_message broadcasts of user u that are in flight
InFlight(u) == {g \in Https : http[g].pc = "bcast" /\ http[g].f.about = u}

\* the history of a handler's broadcast, brought up to date when the call
\* reaches an await: its send_json on f.cur was called before that of each
\* older broadcast that has not called it yet
Noted(st, f) ==
    IF st # "await" THEN f
    ELSE [f EXCEPT !.early = @ \cup
            {<<g, f.cur>> : g \in {k \in f.older : f.cur \notin http[k].f.att}}]

\* the handlers' records once the send_message broadcast h has ended
Forget(h) ==
    [s \in Sess |->
        [hs[s] EXCEPT !.f.older = @ \ {h},
                      !.f.early = {p \in @ : p[1] # h}]]

\* a handler's own broadcast (join or typing) resumes after a send_json
HandlerBcast(s, drop) ==
    /\ hs[s].pc \in {"join", "typing"}
    /\ ~Stalled(transport, hs[s].f.cur)
    /\ \E h \in {hs[s]} :
       \E tr \in {PeerGone(transport, h.f.cur, drop)} :
       \E R \in {Resume(variant, World, h.f, tr)} :
       \E who \in {IF h.pc = "join" THEN "connect" ELSE "typing"} :
           CASE R.st = "await" ->
                  /\ hs' = [hs EXCEPT ![s].f = Noted(R.st, R.f)]
                  /\ SetWorld(R.w)
                  /\ transport' = tr
                  /\ fin' = NoFin
                  /\ UNCHANGED <<variant, http, api>>
             [] R.st = "return" ->
                  /\ hs' = [hs EXCEPT ![s] =
                              [h EXCEPT !.pc = IF h.pc = "join" THEN AfterConnect ELSE "recv",
                                        !.f = NoFrame]]
                  /\ SetWorld(R.w)
                  /\ transport' = tr
                  /\ fin' = Fin(R.f, "return", who)
                  /\ UNCHANGED <<variant, http, api>>
             [] R.st = "raise" ->
                  \* out of connect: nothing catches it; out of the read
                  \* loop: except Exception, then manager.disconnect
                  /\ hs' = [hs EXCEPT ![s] = Ended(h, h.pc = "typing")]
                  /\ SetWorld(IF h.pc = "typing"
                              THEN Disconnect(variant, R.w, h.room, h.user)
                              ELSE R.w)
                  /\ transport' = Closed(tr, s)
                  /\ fin' = Fin(R.f, "raise", who)
                  /\ UNCHANGED <<variant, http, api>>

\* the record of a pong that websocket_endpoint has sent on websocket s
PongFin(s, pc) ==
    IF pc = "pong"
    THEN Fin([NoFrame EXCEPT !.kind = "pong", !.cur = s], "return", "frame")
    ELSE NoFin

\* an awaited websocket.send_json of the endpoint itself completes: the
\* "connected" greeting (app), a pong, or the keepalive ping (app)
OwnSend(s, drop) ==
    /\ hs[s].pc \in {"hello", "pong", "probe"}
    /\ ~Stalled(transport, s)
    /\ \E tr \in {PeerGone(transport, s, drop)} :
       IF tr[s] = "open"
       THEN /\ hs' = [hs EXCEPT ![s].pc = "recv"]
            /\ fin' = PongFin(s, hs[s].pc)
            /\ UNCHANGED <<variant, reg, transport, http, api, tasks, removed>>
       ELSE /\ hs' = [hs EXCEPT ![s] = Ended(hs[s], TRUE)]
            /\ SetWorld(Disconnect(variant, World, hs[s].room, hs[s].user))
            /\ transport' = Closed(tr, s)
            /\ fin' = NoFin
            /\ UNCHANGED <<variant, http, api>>

RecvEvents == {"typing", "ping", "other", "malformed", "bad", "timeout", "disconnect"}

\* a read loop without its ping arm
DispatchMute(ev) == IF ev = "typing" THEN "typing" ELSE "none"

\* a handler that answers every frame that is not a typing frame with a pong
DispatchEcho(ev) == IF ev = "typing" THEN "typing" ELSE "pong"

\* the if / elif chain on data.get("type"): what the read loop does with a
\* frame that is a JSON object
Dispatch(ev) ==
    IF ev = "typing" THEN "typing"
    ELSE IF ev = "ping" THEN "pong"
    ELSE "none"

\* the record of an inbound frame of websocket s that was not a typing frame
FrameFin(s, ev, res) ==
    IF ev \in {"ping", "other", "malformed"}
    THEN Fin([NoFrame EXCEPT !.kind = ev, !.cur = s], res, "frame")
    ELSE NoFin

\* the awaited receive_json completes with a frame, an error or a timeout: a
\* frame that is a JSON object ("typing", "ping", "other"), a frame that is
\* not ("malformed": json.loads or data.get raises), another exception of
\* the call ("bad"), the timeout, or the peer's disconnect
Recv(s, ev) ==
    /\ hs[s].pc = "recv"
    /\ ev = "timeout" => variant = "app"
    /\ \E h \in {hs[s]} :
       \E tr \in {PeerGone(transport, s, ev = "disconnect")} :
       IF ~Readable(tr, s) \/ ev \in {"bad", "malformed"}
       THEN \* WebSocketDisconnect, or except Exception
            /\ hs' = [hs EXCEPT ![s] = Ended(h, TRUE)]
            /\ SetWorld(Disconnect(variant, World, h.room, h.user))
            /\ transport' = Closed(tr, s)
            /\ fin' = IF Readable(tr, s) THEN FrameFin(s, ev, "raise") ELSE NoFin
            /\ UNCHANGED <<variant, http, api>>
       ELSE IF ev = "timeout"
       THEN /\ hs' = [hs EXCEPT ![s].pc = "probe"]
            /\ fin' = NoFin
            /\ UNCHANGED <<variant, reg, transport, http, api, tasks, removed>>
       ELSE CASE Dispatch(ev) = "typing" ->
                  \E B \in {BStart(reg, removed, h.room, h.user, "typing", h.user, 0, 0)} :
                  \E f \in {Noted(B.st, [B.f EXCEPT !.older = InFlight(h.user)])} :
                  /\ hs' = [hs EXCEPT ![s] =
                              IF B.st = "await" THEN [h EXCEPT !.pc = "typing", !.f = f]
                              ELSE h]
                  /\ fin' = IF B.st = "await" THEN NoFin ELSE Fin(B.f, B.st, "typing")
                  /\ UNCHANGED <<variant, reg, transport, http, api, tasks, removed>>
              [] Dispatch(ev) = "pong" ->
                  /\ hs' = [hs EXCEPT ![s].pc = "pong"]
                  /\ fin' = FrameFin(s, ev, "return")
                  /\ UNCHANGED <<variant, reg, transport, http, api, tasks, removed>>
              [] Dispatch(ev) = "none" ->
                  /\ fin' = FrameFin(s, ev, "return")
                  /\ UNCHANGED <<variant, reg, hs, transport, http, api, tasks, removed>>

\* a send_message that has executed the INSERT but not yet conn.commit()
\* when it goes on to the broadcast
PersistLater(dbok) == IF dbok THEN "pending" ELSE "failed"

\* cursor.execute(INSERT INTO messages ...) and conn.commit(): the state of
\* the message's row when they are done; an sqlite3 error leaves no row
Persist(dbok) == IF dbok THEN "committed" ELSE "failed"

\* the record of a send_message that raised before it called broadcast
HttpFailed(u, acct, row) ==
    Fin([NoFrame EXCEPT !.room = 1, !.kind = "msg", !.about = u, !.row = row,
                        !.acct = acct],
        "raise", "http")

\* what SELECT id, is_banned FROM users WHERE id = user_id can find
Accounts == {"ok", "missing", "banned"}

\* a send_message that does not look at is_banned
LookupNoBan(acct) == IF acct = "missing" THEN "404" ELSE "pass"

\* the tests of send_message on the row of its user
Lookup(acct) ==
    IF acct = "missing" THEN "404"
    ELSE IF acct = "banned" THEN "403"
    ELSE "pass"

\* the record of a send_message that was refused with HTTP 404 or 403
HttpRejected(u, acct, code) ==
    Fin([NoFrame EXCEPT !.room = 1, !.kind = "msg", !.about = u, !.acct = acct],
        code, "reject")

\* send_message from the INSERT to the first await of its broadcast; an
\* error of the store leaves through except Exception (HTTP 500)
HttpStore(h, u, acct, dbok) ==
    \E row \in {Persist(dbok)} :
    IF row = "failed"
    THEN /\ http' = [http EXCEPT ![h] = [pc |-> "idle", f |-> NoFrame]]
         /\ fin' = HttpFailed(u, acct, row)
    ELSE \E B \in {BStart(reg, removed, 1, 0, "msg", u, 0, 0)} :
         \E f \in {[B.f EXCEPT !.row = row, !.acct = acct]} :
         /\ http' = [http EXCEPT ![h] =
                       IF B.st = "await" THEN [pc |-> "bcast", f |-> f]
                       ELSE [pc |-> "idle", f |-> NoFrame]]
         /\ fin' = IF B.st = "await" THEN NoFin ELSE Fin(f, B.st, "http")

\* POST /api/chat/send with user_id = u, whose row in users is acct: a user
\* that is missing or banned is refused; else, without a file the message
\* is stored, then broadcast to room 1, and with a file the handler first
\* awaits file.read()
HttpSend(h, u, acct, file, dbok) ==
    /\ http[h].pc = "idle"
    /\ \A v \in Users : v < u => v \in UsedUsers
    /\ IF Lookup(acct) # "pass"
       THEN /\ http' = http
            /\ fin' = HttpRejected(u, acct, Lookup(acct))
       ELSE IF file
       THEN /\ http' = [http EXCEPT ![h] =
                          [pc |-> "read",
                           f |-> [NoFrame EXCEPT !.room = 1, !.kind = "msg", !.about = u,
                                                 !.acct = acct]]]
            /\ fin' = NoFin
       ELSE HttpStore(h, u, acct, dbok)
    /\ UNCHANGED <<variant, reg, hs, transport, api, tasks, removed>>

\* file.read() has returned: a file over 5 MB is refused with HTTP 413
\* before anything is stored, any other is saved and the message stored and
\* broadcast
HttpRead(h, big, dbok) ==
    /\ http[h].pc = "read"
    /\ IF big
       THEN /\ http' = [http EXCEPT ![h] = [pc |-> "idle", f |-> NoFrame]]
            /\ fin' = HttpFailed(http[h].f.about, http[h].f.acct, "none")
       ELSE HttpStore(h, http[h].f.about, http[h].f.acct, dbok)
    /\ UNCHANGED <<variant, reg, hs, transport, api, tasks, removed>>

\* the broadcast of send_message resumes after a send_json; when it returns
\* the request is answered with success, and an exception that leaves it is
\* turned into HTTP 500 by except Exception (fin.res = "raise")
HttpBcast(h, drop) ==
    /\ http[h].pc = "bcast"
    /\ ~Stalled(transport, http[h].f.cur)
    /\ \E tr \in {PeerGone(transport, http[h].f.cur, drop)} :
       \E R \in {Resume(variant, World, http[h].f, tr)} :
       /\ http' = [http EXCEPT ![h] =
                     IF R.st = "await" THEN [pc |-> "bcast", f |-> R.f]
                     ELSE [pc |-> "idle", f |-> NoFrame]]
       /\ SetWorld(R.w)
       /\ transport' = tr
       /\ hs' = IF R.st = "await" THEN hs ELSE Forget(h)
       /\ fin' = IF R.st = "await" THEN NoFin ELSE Fin(R.f, R.st, "http")
    /\ UNCHANGED <<variant, api>>

\* what a finished send_to_user call looked up, called and returned
ApiFin(r, u, had, tgt, ok, res) ==
    Fin([NoFrame EXCEPT !.room = r, !.about = u, !.kind = "direct",
                        !.snap = IF had THEN {tgt} ELSE {},
                        !.att = IF had THEN {tgt} ELSE {},
                        !.okd = IF had /\ ok THEN {tgt} ELSE {},
                        !.bad = IF had /\ ~ok THEN {tgt} ELSE {}],
        res, "api")

\* ConnectionManager.send_to_user up to its await
ApiCall(a, r, u) ==
    /\ api[a].pc = "idle"
    /\ variant = "app" => r = 1
    /\ IF Registered(reg, r, u)
       THEN /\ api' = [api EXCEPT ![a] = [pc |-> "send", room |-> r, user |-> u,
                                          tgt |-> Occupant(reg, r, u)]]
            /\ fin' = NoFin
       ELSE /\ api' = api
            /\ fin' = ApiFin(r, u, FALSE, 0, FALSE,
                             IF variant = "app" THEN "false" ELSE "none")
    /\ UNCHANGED <<variant, reg, hs, transport, http, tasks, removed>>

\* send_to_user resumes after its send_json
ApiResume(a, drop) ==
    /\ api[a].pc = "send"
    /\ ~Stalled(transport, api[a].tgt)
    /\ LET c == api[a]
           tr == PeerGone(transport, c.tgt, drop)
           ok == tr[c.tgt] = "open"
       IN
       /\ api' = [api EXCEPT ![a] = [pc |-> "idle", room |-> 0, user |-> 0, tgt |-> 0]]
       /\ SetWorld(IF ~ok /\ variant = "app"
                   THEN Disconnect(variant, World, c.room, c.user)
                   ELSE World)
       /\ transport' = tr
       /\ fin' = ApiFin(c.room, c.user, TRUE, c.tgt, ok,
                        IF variant = "backend" THEN "none"
                        ELSE IF ok THEN "true" ELSE "false")
    /\ UNCHANGED <<variant, hs, http>>

DropTask(ts, i) == SubSeq(ts, 1, i - 1) \o SubSeq(ts, i + 1, Len(ts))

\* a task created by disconnect starts running broadcast_to_chat
TaskStart(i) ==
    /\ i \in 1..Len(tasks)
    /\ tasks[i].st = "new"
    /\ \E t \in {tasks[i]} :
       \E B \in {BStart(reg, removed, t.room, 0, "leave", t.about, t.count, 0)} :
           /\ tasks' = IF B.st = "await"
                       THEN [tasks EXCEPT ![i] = [t EXCEPT !.st = "run", !.f = B.f]]
                       ELSE DropTask(tasks, i)
           /\ fin' = IF B.st = "await" THEN NoFin ELSE Fin(B.f, B.st, "leave")
    /\ UNCHANGED <<variant, reg, hs, transport, http, api, removed>>

\* a scheduled leave broadcast resumes after a send_json
TaskStep(i, drop) ==
    /\ i \in 1..Len(tasks)
    /\ tasks[i].st = "run"
    /\ ~Stalled(transport, tasks[i].f.cur)
    /\ \E t \in {tasks[i]} :
       \E tr \in {PeerGone(transport, t.f.cur, drop)} :
       \E R \in {Resume(variant, World, t.f, tr)} :
           /\ reg' = R.w.reg
           /\ removed' = R.w.removed
           /\ tasks' = IF R.st = "await"
                       THEN [R.w.tasks EXCEPT ![i] = [t EXCEPT !.f = R.f]]
                       ELSE DropTask(R.w.tasks, i)
           /\ transport' = tr
           /\ fin' = IF R.st = "await" THEN NoFin ELSE Fin(R.f, R.st, "leave")
    /\ UNCHANGED <<variant, hs, http, api>>

\* the peer of a registered websocket stops reading, for good
Stall(s) ==
    /\ transport[s] = "open"
    /\ s \in AllRegistered(reg)
    /\ transport' = [transport EXCEPT ![s] = "stalled"]
    /\ fin' = NoFin
    /\ UNCHANGED <<variant, reg, hs, http, api, tasks, removed>>

\* the frames the registry core is exercised with
CoreEvents == {"typing", "bad", "disconnect"}

\* every operation, on up to MaxSess websockets
Next ==
    \/ \E s \in 1..MaxSess, u \in Users, r \in Rooms : NewConn(s, u, r)
    \/ \E s \in Sess, drop \in BOOLEAN : Accept(s, drop)
    \/ \E s \in Sess : CloseOldDone(s)
    \/ \E s \in Sess, drop \in BOOLEAN : HandlerBcast(s, drop)
    \/ \E s \in Sess, drop \in BOOLEAN : OwnSend(s, drop)
    \/ \E s \in Sess, ev \in RecvEvents : Recv(s, ev)
    \/ \E h \in Https, u \in Users : HttpSend(h, u, "ok", FALSE, TRUE)
    \/ \E h \in Https, drop \in BOOLEAN : HttpBcast(h, drop)
    \/ \E a \in Apis, r \in Rooms, u \in Users : ApiCall(a, r, u)
    \/ \E a \in Apis, drop \in BOOLEAN : ApiResume(a, drop)
    \/ \E i \in DOMAIN tasks : TaskStart(i)
    \/ \E i \in DOMAIN tasks, drop \in BOOLEAN : TaskStep(i, drop)

Spec == Init /\ [][Next]_vars

\* the registry core (connect, read loop with typing, disconnect, the
\* scheduled leave broadcasts), on up to WideSess websockets
NextCore ==
    \/ \E s \in 1..WideSess, u \in Users, r \in Rooms : NewConn(s, u, r)
    \/ \E s \in Sess, drop \in BOOLEAN : Accept(s, drop)
    \/ \E s \in Sess : CloseOldDone(s)
    \/ \E s \in Sess, drop \in BOOLEAN : HandlerBcast(s, drop)
    \/ \E s \in Sess, drop \in BOOLEAN : OwnSend(s, drop)
    \/ \E s \in Sess, ev \in CoreEvents : Recv(s, ev)
    \/ \E i \in DOMAIN tasks : TaskStart(i)
    \/ \E i \in DOMAIN tasks, drop \in BOOLEAN : TaskStep(i, drop)

SpecCore == Init /\ [][NextCore]_vars

\* connect, read loop, disconnect and send_message on up to MaxSess
\* websockets whose peers may stop reading
NextSlow ==
    \/ \E s \in 1..MaxSess, u \in Users, r \in Rooms : NewConn(s, u, r)
    \/ \E s \in Sess, drop \in BOOLEAN : Accept(s, drop)
    \/ \E s \in Sess : CloseOldDone(s)
    \/ \E s \in Sess, drop \in BOOLEAN : HandlerBcast(s, drop)
    \/ \E s \in Sess, drop \in BOOLEAN : OwnSend(s, drop)
    \/ \E s \in Sess, ev \in CoreEvents : Recv(s, ev)
    \/ \E h \in Https, u \in Users : HttpSend(h, u, "ok", FALSE, TRUE)
    \/ \E h \in Https, drop \in BOOLEAN : HttpBcast(h, drop)
    \/ \E i \in DOMAIN tasks : TaskStart(i)
    \/ \E i \in DOMAIN tasks, drop \in BOOLEAN : TaskStep(i, drop)
    \/ \E s \in Sess : Stall(s)

\* The event loop runs every coroutine that is ready: a call whose awaited
\* accept, close or send_json has completed is resumed, and a created task
\* is started.  Nothing obliges a client to connect, to send a frame or to
\* post a message.
Fairness ==
    /\ \A s \in 1..MaxSess : WF_vars(\E drop \in BOOLEAN : Accept(s, drop))
    /\ \A s \in 1..MaxSess : WF_vars(CloseOldDone(s))
    /\ \A s \in 1..MaxSess : WF_vars(\E drop \in BOOLEAN : HandlerBcast(s, drop))
    /\ \A s \in 1..MaxSess : WF_vars(\E drop \in BOOLEAN : OwnSend(s, drop))
    /\ \A h \in Https : WF_vars(\E drop \in BOOLEAN : HttpBcast(h, drop))
    /\ WF_vars(\E i \in DOMAIN tasks : TaskStart(i))
    /\ WF_vars(\E i \in DOMAIN tasks, drop \in BOOLEAN : TaskStep(i, drop))

SpecSlow == Init /\ [][NextSlow]_vars /\ Fairness

\* what a silent peer can still cause: the timer of receive_json running
\* out, and the peer's connection closing
IdleEvents == {"timeout", "disconnect"}

\* connect, read loop and disconnect on up to MaxSess websockets whose peers
\* send no frame
NextIdle ==
    \/ \E s \in 1..MaxSess, u \in Users, r \in Rooms : NewConn(s, u, r)
    \/ \E s \in Sess, drop \in BOOLEAN : Accept(s, drop)
    \/ \E s \in Sess : CloseOldDone(s)
    \/ \E s \in Sess, drop \in BOOLEAN : HandlerBcast(s, drop)
    \/ \E s \in Sess, drop \in BOOLEAN : OwnSend(s, drop)
    \/ \E s \in Sess, ev \in IdleEvents : Recv(s, ev)
    \/ \E i \in DOMAIN tasks : TaskStart(i)
    \/ \E i \in DOMAIN tasks, drop \in BOOLEAN : TaskStep(i, drop)

\* Besides the event loop's scheduling: a receive_json with a timeout that
\* gets no frame is resumed when the timeout runs out, and a receive_json
\* on a connection that is closed or lost is resumed with the exception.
FairnessIdle ==
    /\ Fairness
    /\ \A s \in 1..MaxSess : WF_vars(Recv(s, "timeout"))
    /\ \A s \in 1..MaxSess : WF_vars(~Readable(transport, s) /\ Recv(s, "disconnect"))

SpecIdle == Init /\ [][NextIdle]_vars /\ FairnessIdle

\* connect, read loop and disconnect on up to MaxSess websockets opened by
\* clients that authenticated and by clients that did not
NextOpen ==
    \/ \E s \in 1..MaxSess, u \in Users, r \in Rooms : NewConn(s, u, r)
    \/ \E s \in 1..MaxSess, u \in Users, r \in Rooms, a \in Unauthenticated :
           NewConnAnon(s, u, r, a)
    \/ \E s \in Sess, drop \in BOOLEAN : Accept(s, drop)
    \/ \E s \in Sess : CloseOldDone(s)
    \/ \E s \in Sess, drop \in BOOLEAN : HandlerBcast(s, drop)
    \/ \E s \in Sess, drop \in BOOLEAN : OwnSend(s, drop)
    \/ \E s \in Sess, ev \in IdleEvents : Recv(s, ev)
    \/ \E i \in DOMAIN tasks : TaskStart(i)
    \/ \E i \in DOMAIN tasks, drop \in BOOLEAN : TaskStep(i, drop)

SpecOpen == Init /\ [][NextOpen]_vars

\* backend/main.py's connect, failing sends and disconnect on up to WideSess
\* websockets in room 1, with the leave notifications they schedule
NextCascade ==
    \/ \E s \in Sess, u \in Users : variant = "backend" /\ NewConn(s, u, 1)
    \/ \E s \in Sess, drop \in BOOLEAN : Accept(s, drop)
    \/ \E s \in Sess, drop \in BOOLEAN : HandlerBcast(s, drop)
    \/ \E s \in Sess : Recv(s, "disconnect")
    \/ \E i \in DOMAIN tasks : TaskStart(i)
    \/ \E i \in DOMAIN tasks, drop \in BOOLEAN : TaskStep(i, drop)

\* The event loop starts every created task and resumes every leave
\* broadcast whose awaited send_json has completed or failed.
FairnessCascade ==
    /\ WF_vars(\E i \in DOMAIN tasks : TaskStart(i))
    /\ WF_vars(\E i \in DOMAIN tasks, drop \in BOOLEAN : TaskStep(i, drop))

SpecCascade == Init /\ [][NextCascade]_vars /\ FairnessCascade

\* send_message with and without a file, on a store that may fail, while up
\* to MaxSess websockets connect and disconnect
NextStore ==
    \/ \E s \in 1..MaxSess, u \in Users, r \in Rooms : NewConn(s, u, r)
    \/ \E s \in Sess, drop \in BOOLEAN : Accept(s, drop)
    \/ \E s \in Sess : CloseOldDone(s)
    \/ \E s \in Sess, drop \in BOOLEAN : HandlerBcast(s, drop)
    \/ \E s \in Sess, drop \in BOOLEAN : OwnSend(s, drop)
    \/ \E s \in Sess : Recv(s, "disconnect")
    \/ \E h \in Https, u \in Users, acct \in Accounts, file \in BOOLEAN, dbok \in BOOLEAN :
           HttpSend(h, u, acct, file, dbok)
    \/ \E h \in Https, big \in BOOLEAN, dbok \in BOOLEAN : HttpRead(h, big, dbok)
    \/ \E h \in Https, drop \in BOOLEAN : HttpBcast(h, drop)
    \/ \E i \in DOMAIN tasks : TaskStart(i)
    \/ \E i \in DOMAIN tasks, drop \in BOOLEAN : TaskStep(i, drop)

SpecStore == Init /\ [][NextStore]_vars

\* ------------------------------------------------------ broadcasts in flight
LiveFrames ==
    {hs[s].f : s \in {t \in Sess : hs[t].pc \in {"join", "typing"}}}
    \cup {http[h].f : h \in {g \in Https : http[g].pc = "bcast"}}
    \cup {tasks[i].f : i \in {j \in DOMAIN tasks : tasks[j].st = "run"}}

\* a broadcast call ended in the last step
BcastEnded == fin.who \in {"connect", "typing", "http", "leave"}

\* every live entry of room r's dict that has key u
Slots(rg, r, u) == {i \in LiveIdx(rg[r].ents) : rg[r].ents[i].uid = u}

\* websocket s enters the registry in this step
Registers(s) == s \notin AllRegistered(reg) /\ s \in AllRegistered(reg')

\* ------------------------------------------------------------------ claims

\* C1: Single occupancy.  In every state the registry holds at most one
\* websocket for each (room, user) and no websocket in two slots; and the
\* step in which a connect registers its websocket s puts s in the slot
\* (room, user) of s, takes out exactly the previous occupant of that slot
\* and leaves every other slot as it was.
C1_SingleOccupancy ==
    [][ /\ \A r \in Rooms, u \in Users : Cardinality(Slots(reg', r, u)) <= 1
        /\ \A s \in Sess :
             Cardinality({ru \in Rooms \X Users : Occupant(reg', ru[1], ru[2]) = s}) <= 1
        /\ \A s \in Sess : Registers(s) =>
             /\ Occupant(reg', hs[s].room, hs[s].user) = s
             /\ \A r \in Rooms, u \in Users :
                  <<r, u>> # <<hs[s].room, hs[s].user>> =>
                      Occupant(reg', r, u) = Occupant(reg, r, u)
             /\ AllRegistered(reg') =
                  (AllRegistered(reg) \ {Occupant(reg, hs[s].room, hs[s].user)}) \cup {s}
      ]_vars

\* C1 witness: a second connect of a user has replaced the user's first
\* websocket while another user's websocket stays registered
C1_Witness ==
    \E s1, s2, s3 \in Sess :
        /\ s1 < s3 /\ hs[s1].user = hs[s3].user /\ hs[s1].room = hs[s3].room
        /\ hs[s2].user # hs[s3].user /\ hs[s2].room = hs[s3].room
        /\ s1 \notin removed /\ hs[s1].pc \notin {"idle", "accept", "done"}
        /\ s1 \notin AllRegistered(reg)
        /\ Occupant(reg, hs[s3].room, hs[s3].user) = s3
        /\ Occupant(reg, hs[s2].room, hs[s2].user) = s2

\* C2: Remove is guarded by session identity.  The step in which the
\* handler of websocket s1 ends (its finally / except branch has run
\* disconnect) never takes another websocket s2 out of the slot of s1's user.
C2_GuardedRemove ==
    [][ \A s1 \in Sess : (hs[s1].pc # "done" /\ hs'[s1].pc = "done") =>
           LET o == Occupant(reg, hs[s1].room, hs[s1].user) IN
           (o # 0 /\ o # s1) => Occupant(reg', hs[s1].room, hs[s1].user) = o
      ]_vars

\* C3: Isolation under failure.  When a broadcast call has ended in which
\* the send to exactly one websocket failed, send_json was attempted on
\* every other websocket that was registered in the room when the call
\* started and still is.
C3_Isolation ==
    (BcastEnded /\ Cardinality(fin.f.bad) = 1) =>
        (fin.f.snap \cap RoomSessions(reg, fin.f.room)) \subseteq fin.f.att

\* C4: a broadcast call in which a send failed returns normally to its
\* caller; no exception leaves it.
C4_NoPropagation ==
    (BcastEnded /\ fin.f.bad # {}) => fin.res = "return"

\* C5: Self-healing on failure.  A websocket to which a send of a broadcast
\* or of send_to_user has failed is out of the registry as soon as the call
\* goes on or ends, so that no later broadcast finds it.
C5_SelfHealing ==
    /\ \A f \in LiveFrames : f.bad \cap AllRegistered(reg) = {}
    /\ fin.who # "none" => fin.f.bad \cap AllRegistered(reg) = {}

\* C6: Exclusion correctness.  A broadcast with exclude_user = U calls
\* send_json on no websocket of U, and when it has ended it has delivered
\* to every websocket of another user that was registered in the room when
\* it started and still is.
C6_Exclusion ==
    /\ \A f \in LiveFrames : \A s \in f.att : f.excl # 0 => hs[s].user # f.excl
    /\ (BcastEnded /\ fin.f.excl # 0) =>
          /\ \A s \in fin.f.att : hs[s].user # fin.f.excl
          /\ (fin.f.snap \cap RoomSessions(reg, fin.f.room)) \subseteq fin.f.okd

\* C7: No dangling delivery.  A broadcast never calls send_json on a
\* websocket that disconnect had removed before the broadcast was invoked.
C7_NoDanglingDelivery ==
    /\ \A f \in LiveFrames : f.att \cap f.gone = {}
    /\ BcastEnded => fin.f.att \cap fin.f.gone = {}

\* C7 witness: a broadcast invoked after disconnect removed a websocket of
\* its room is sending to a websocket of that room
C7_Witness ==
    \E f \in LiveFrames :
        /\ f.cur # 0
        /\ \E s \in f.gone : hs[s].room = f.room /\ s \in f.snap \cup removed

\* C8: Reconnect scenario.  When a connect that found a websocket of the
\* same user in the slot has completed, that websocket is closed and out of
\* the registry, and the user's slot is occupied (count 1 for the user).
C8_Reconnect ==
    (fin.who = "connect" /\ fin.res = "return" /\ fin.f.evict # 0) =>
        /\ transport[fin.f.evict] = "closed"
        /\ fin.f.evict \notin AllRegistered(reg)
        /\ Cardinality(Slots(reg, fin.f.room, fin.f.about)) = 1

\* C9: a join notification is emitted only by a connect that evicts
\* nothing: the join broadcast of a connect that found a websocket of the
\* same user in the slot delivers to nobody.
C9_JoinOnlyWhenNew ==
    /\ \A f \in LiveFrames : (f.kind = "join" /\ f.evict # 0) => f.okd = {}
    /\ (fin.who = "connect" /\ fin.f.evict # 0) => fin.f.okd = {}

\* C10: Eviction is atomic with respect to lookups.  While a replacing
\* connect is suspended, the registry does not map the slot to a websocket
\* that is already closed.
C10_AtomicEviction ==
    \A s \in Sess : hs[s].pc = "close_old" =>
        ~ (/\ Occupant(reg, hs[s].room, hs[s].user) = hs[s].old
           /\ transport[hs[s].old] = "closed")

\* C11: Snapshot stability.  A broadcast call in which no send failed has
\* ended by returning normally, and it called send_json on exactly the
\* websockets that were registered in the room (the excluded user's aside)
\* when it was invoked, whatever other tasks connected or disconnected
\* while it was suspended.
C11_SnapshotStability ==
    (BcastEnded /\ fin.f.bad = {}) =>
        /\ fin.res = "return"
        /\ fin.f.att = fin.f.snap

\* C12: Per-sender ordering.  When a user's typing broadcast was invoked
\* while a send_message broadcast of the same user was in flight, no
\* websocket is sent the new_message after the user_typing: the earlier
\* broadcast never calls send_json on a websocket on which the later one
\* has called it first.
C12_SenderOrder ==
    \A t \in Sess : hs[t].pc = "typing" =>
        \A p \in hs[t].f.early :
            http[p[1]].pc = "bcast" => p[2] \notin http[p[1]].f.att

\* websocket x was registered when the send_message broadcast h was invoked,
\* is still registered and reading, and h has not called send_json on it
Waiting(h, x) ==
    /\ http[h].pc = "bcast"
    /\ x \in http[h].f.snap \ http[h].f.att
    /\ x \in AllRegistered(reg)
    /\ transport[x] = "open"

\* C13: a slow consumer never stalls the room.  A websocket that waits for
\* its turn in a broadcast does not wait for ever: the broadcast eventually
\* calls send_json on it (or ends, or the websocket leaves), also when the
\* send to another recipient never completes.
C13_NoStall ==
    \A h \in Https, x \in 1..MaxSess : Waiting(h, x) ~> ~Waiting(h, x)

\* C14: Idempotent remove.  In every reachable state and for every slot
\* (room, user), disconnect leaves the slot empty, and a second disconnect
\* of the same slot changes nothing: the registry, the scheduled leave
\* notifications and the set of removed websockets stay as the first call
\* left them.
C14_IdempotentRemove ==
    \A r \in Rooms, u \in Users :
        LET w1 == Disconnect(variant, World, r, u) IN
        /\ ~Registered(w1.reg, r, u)
        /\ Disconnect(variant, w1, r, u) = w1

\* C14 witness: the handler of a removed websocket has run its disconnect
\* and the slot is empty, while another websocket is registered and leave
\* notifications are scheduled
C14_Witness ==
    /\ variant = "backend"
    /\ tasks # <<>>
    /\ \E s \in removed :
        /\ hs[s].end = "disc"
        /\ ~Registered(reg, hs[s].room, hs[s].user)
        /\ AllRegistered(reg) \ {s} # {}

\* C15: No dangling entries.  Every websocket in the registry belongs to a
\* websocket_endpoint that is still running: when the endpoint has ended,
\* for whatever reason, its websocket is no longer registered.
C15_NoDanglingEntries ==
    \A s \in AllRegistered(reg) : hs[s].pc # "done"

\* C16: Room pruning.  At every await point no room of active_connections
\* is mapped to an empty dict: the disconnect that removes the last
\* websocket of a room deletes the room's key.
C16_RoomPruning ==
    \A r \in Rooms : reg[r].present => RoomCount(reg, r) > 0

\* C16 witness: disconnect has removed the last websocket of a room that
\* had been created, and the room's key is gone
C16_Witness ==
    \E r \in Rooms :
        /\ ~reg[r].present
        /\ reg[r].gen > 0
        /\ \E s \in removed : hs[s].room = r

\* the typing broadcasts: those in flight and the one that has just ended
TypingFrames ==
    {hs[s].f : s \in {t \in Sess : hs[t].pc = "typing"}}
    \cup (IF fin.who = "typing" THEN {fin.f} ELSE {})

\* C17: Typing scenario.  The user_typing broadcast that A's websocket
\* causes names A and excludes A: it calls send_json on no websocket of A
\* and on no websocket twice; and when B's was the only other websocket
\* in the room, send_json is called on B's websocket from the start and,
\* unless that send fails, B has been delivered the event when the
\* broadcast ends.
C17_TypingScenario ==
    /\ \A f \in TypingFrames :
         /\ f.excl = f.about
         /\ \A s \in f.att : hs[s].user # f.about
         /\ f.cur # 0 => f.cur \notin f.okd \cup f.bad
         /\ Cardinality(f.snap) = 1 => f.snap \subseteq f.att
    /\ (fin.who = "typing" /\ Cardinality(fin.f.snap) = 1 /\ fin.f.bad = {}) =>
         fin.f.okd = fin.f.snap

\* C17 witness: with A and B registered in one room, A's typing broadcast
\* has ended and has delivered to B's websocket and to no other
C17_Witness ==
    /\ fin.who = "typing"
    /\ \E b \in Sess :
         /\ fin.f.okd = {b}
         /\ fin.f.att = {b}
         /\ hs[b].room = fin.f.room
         /\ hs[b].user # fin.f.about
         /\ Registered(reg, fin.f.room, fin.f.about)
         /\ RoomCount(reg, fin.f.room) = 2

\* C18: Leave notification.  Every step in which disconnect takes a
\* websocket out of its slot leaves behind a leave event for the room that
\* names the websocket's user and that will be broadcast to the members
\* that remain, if any remain.
C18_LeaveNotification ==
    [][ \A s \in removed' \ removed :
          RoomCount(reg', hs[s].room) > 0 =>
          \E i \in DOMAIN tasks' :
              /\ tasks'[i].st = "new"
              /\ tasks'[i].room = hs[s].room
              /\ tasks'[i].about = hs[s].user
              /\ tasks'[i].count <= RoomCount(reg, hs[s].room) - 1
      ]_vars

\* C19: Presence is best-effort.  When the join broadcast of a connect has
\* ended, with or without failed sends, connect returns and the endpoint
\* goes on to its read loop; and the step in which an endpoint ends by
\* running disconnect leaves its websocket out of the registry.
C19_BestEffortPresence ==
    [][ \A s \in Sess :
          /\ (hs[s].pc = "join" /\ hs'[s].pc # "join") => hs'[s].pc = AfterConnect
          /\ (hs[s].pc # "done" /\ hs'[s].pc = "done" /\ hs'[s].end = "disc") =>
                s \notin AllRegistered(reg')
      ]_vars

\* the join broadcasts: those in flight and the one that has just ended
JoinFrames ==
    {hs[s].f : s \in {t \in Sess : hs[t].pc = "join"}}
    \cup (IF fin.who = "connect" THEN {fin.f} ELSE {})

\* C20: the online_count of a join event is the number of websockets that
\* were registered in the room when connect built the event, the joiner's
\* included; the online_count of a leave event is the number registered when
\* disconnect built it, the leaver's no longer included.
C20_OnlineCount ==
    /\ \A f \in JoinFrames : f.count = Cardinality(f.snap) + 1
    /\ \A r \in Rooms, u \in Users :
         (variant = "backend" /\ Registered(reg, r, u)) =>
            LET w1 == Disconnect(variant, World, r, u)
                ev == w1.tasks[Len(w1.tasks)]
            IN  /\ Len(w1.tasks) = Len(tasks) + 1
                /\ ev.room = r /\ ev.about = u
                /\ ev.count = RoomCount(w1.reg, r)
                /\ ev.count = RoomCount(reg, r) - 1

\* C20 witness: a join event with online_count 2 is being broadcast while
\* a leave event built by an earlier disconnect is scheduled
C20_Witness ==
    /\ variant = "backend"
    /\ \E f \in LiveFrames : f.kind = "join" /\ f.count = 2 /\ f.cur # 0
    /\ \E i \in DOMAIN tasks : tasks[i].count = 1

\* C21: send_to_user returns true when a websocket was registered for
\* (room, user) at the time of the call, and false (or nothing) when none
\* was.
C21_SendToUserResult ==
    fin.who = "api" =>
        /\ fin.f.snap # {} => fin.res = "true"
        /\ fin.f.snap = {} => fin.res \in {"false", "none"}

\* C22: Idle timeout.  A registered websocket whose peer sends no frame does
\* not stay registered for ever: it is eventually taken out of the registry.
C22_IdleTimeout ==
    \A s \in 1..MaxSess : s \in AllRegistered(reg) ~> s \notin AllRegistered(reg)

\* C23: A malformed inbound frame is dropped and the session stays Active:
\* the websocket that received it is still registered if it was, and its
\* read loop goes on.
C23_MalformedFrame ==
    [][ (fin'.who = "frame" /\ fin'.f.kind = "malformed") =>
            /\ hs'[fin'.f.cur].pc = "recv"
            /\ fin'.f.cur \in AllRegistered(reg) => fin'.f.cur \in AllRegistered(reg')
      ]_vars

\* C24: An inbound frame whose type is neither typing nor ping is ignored:
\* the step that receives it sends nothing, starts no broadcast, leaves the
\* registry and the scheduled notifications as they were, and the websocket
\* that received it goes on receiving.
C24_UnknownIgnored ==
    [][ (fin'.who = "frame" /\ fin'.f.kind = "other") =>
            /\ hs' = hs
            /\ hs'[fin'.f.cur].pc = "recv"
            /\ reg' = reg /\ tasks' = tasks /\ removed' = removed
            /\ transport' = transport /\ http' = http /\ api' = api
      ]_vars

\* C24 witness: a registered websocket has just received a frame of another
\* type while another websocket is registered in its room
C24_Witness ==
    /\ fin.who = "frame"
    /\ fin.f.kind = "other"
    /\ fin.f.cur \in AllRegistered(reg)
    /\ RoomCount(reg, hs[fin.f.cur].room) = 2

\* C25: A websocket is registered only after the authentication has accepted
\* its connection request: no websocket of a client whose authentication
\* failed or that never authenticated is in the registry, and none announces
\* a join.
C25_AuthBeforeRegister ==
    /\ \A s \in AllRegistered(reg) : hs[s].auth = "accepted"
    /\ \A s \in Sess : hs[s].pc = "join" => hs[s].auth = "accepted"

\* C26: Durable before fan-out.  A new_message broadcast that is in flight,
\* or has just ended, carries a message whose row is committed; a
\* send_message whose row is not committed has called send_json on nobody.
C26_DurableBeforeFanout ==
    /\ \A h \in Https : http[h].pc = "bcast" => http[h].f.row = "committed"
    /\ (fin.who = "http" /\ fin.f.row # "committed") =>
           /\ fin.res = "raise"
           /\ fin.f.att = {}
    /\ \A h \in Https : http[h].pc = "read" => http[h].f.att = {}

\* C26 witness: a send_message has delivered its new_message to a websocket,
\* and the row of the message is committed
C26_Witness ==
    /\ fin.who = "http"
    /\ fin.f.okd # {}
    /\ fin.f.row = "committed"

\* the positions of a handler before its websocket is stored in the registry
Connecting == {"idle", "accept", "close_old"}

\* C27: The lifecycle is one-directional.  A websocket is not in the registry
\* before its accept has completed; it enters the registry only from
\* connect, open and never removed before; a handler that has left connect
\* never returns to it; and no websocket that disconnect removed is in the
\* registry.
C27_OneDirectional ==
    [][ \A s \in Sess :
          /\ hs'[s].pc \in Connecting => s \notin AllRegistered(reg')
          /\ Registers(s) =>
                /\ hs[s].pc \in {"accept", "close_old"}
                /\ hs'[s].pc \notin Connecting
                /\ s \notin removed
                /\ transport[s] # "closed"
          /\ hs[s].pc \notin Connecting => hs'[s].pc \notin Connecting
          /\ s \in removed' => s \notin AllRegistered(reg')
      ]_vars

\* C27 witness: a websocket that was registered and removed has ended, and a
\* later websocket of the same user is registered in its slot
C27_Witness ==
    \E s \in removed, t \in AllRegistered(reg) :
        /\ s < t
        /\ hs[s].pc = "done"
        /\ hs[t].user = hs[s].user /\ hs[t].room = hs[s].room

\* C28: Active means registered.  A websocket whose read loop forwards a
\* typing frame to broadcast is the registered occupant of its slot: no
\* websocket that was replaced or removed has a later frame broadcast.
C28_ActiveMeansRegistered ==
    [][ /\ \A s \in Sess :
              (hs[s].pc = "recv" /\ hs'[s].pc = "typing") =>
                  /\ Registered(reg, hs[s].room, hs[s].user)
                  /\ Occupant(reg, hs[s].room, hs[s].user) = s
        /\ (fin'.who = "typing" /\ hs' = hs /\ fin' # fin) =>
              \E s \in AllRegistered(reg) :
                  /\ hs[s].pc = "recv"
                  /\ hs[s].user = fin'.f.about /\ hs[s].room = fin'.f.room
      ]_vars

\* websocket s has left connect and is not in the registry: a newer
\* websocket of its user replaced it, or a disconnect removed it
Evicted(s) == hs[s].pc \notin Connecting /\ s \notin AllRegistered(reg)

\* C29: Closing cancels the loops.  A websocket that was replaced by a newer
\* one of the same user, or removed from the registry, does not go on
\* reading for ever: its handler eventually ends.
C29_ClosingCancelsLoops ==
    \A s \in 1..MaxSess : Evicted(s) ~> hs[s].pc = "done"

\* C30: Room independence.  A step that registers or removes a websocket
\* changes the registry entry of that websocket's room only, no step changes
\* the entries of two rooms, and every websocket a broadcast for room R was
\* invoked on, or has called send_json on, belongs to room R.
C30_RoomIndependence ==
    [][ /\ \A s \in Sess :
              (Registers(s) \/ s \in removed' \ removed) =>
                  \A r \in Rooms \ {hs'[s].room} : reg'[r] = reg[r]
        /\ Cardinality({r \in Rooms : reg'[r] # reg[r]}) <= 1
        /\ \A f \in LiveFrames' \cup {fin'.f} :
              \A s \in f.snap \cup f.att : hs'[s].room = f.room
      ]_vars

\* C30 witness: websockets are registered in two rooms, and a broadcast for
\* one of the rooms has ended after it delivered its event
C30_Witness ==
    /\ \A r \in Rooms : RoomCount(reg, r) > 0
    /\ BcastEnded
    /\ fin.f.okd # {}
    /\ \E s \in AllRegistered(reg) : hs[s].room # fin.f.room

\* C31: In app.py a connect that was suspended in the close of the previous
\* websocket still registers the new one: in the step in which it resumes,
\* its websocket becomes the occupant of its user's slot in room 1, also
\* when the room was pruned meanwhile.
C31_ConnectSurvivesPrune ==
    [][ \A s \in Sess :
          (variant = "app" /\ hs[s].pc = "close_old" /\ hs'[s].pc # "close_old") =>
              /\ Registered(reg', 1, hs[s].user)
              /\ Occupant(reg', 1, hs[s].user) = s
      ]_vars

\* C32: The cascade of a failed send terminates.  There are never more
\* pending leave broadcasts than websockets that disconnect has removed, and
\* whenever leave broadcasts are pending the system reaches a state in which
\* none is.
C32_CascadeTerminates ==
    /\ [](Len(tasks) <= Cardinality(removed))
    /\ (tasks # <<>>) ~> (tasks = <<>>)

\* C32 witness: a leave broadcast, itself scheduled by a disconnect, has
\* failed on a websocket and ended, and the leave broadcast that this failure
\* scheduled is pending
C32_Witness ==
    /\ variant = "backend"
    /\ fin.who = "leave"
    /\ fin.f.bad # {}
    /\ \E i \in DOMAIN tasks : \E s \in fin.f.bad :
          tasks[i].about = hs[s].user /\ tasks[i].room = hs[s].room

\* what a step leaves alone when it touches nothing but the handler of
\* websocket s: the registry, the transports, the pending broadcasts and
\* every other handler
OnlyHandler(s) ==
    /\ reg' = reg /\ removed' = removed /\ tasks' = tasks
    /\ transport' = transport /\ http' = http /\ api' = api
    /\ \A t \in Sess \ {s} : hs'[t] = hs[t]
    /\ hs'[s].f = NoFrame

\* C33: A ping is answered with exactly one pong on the same websocket.  The
\* step that receives the ping only takes its handler to the send of the
\* pong; the step in which that send completes only takes it back to
\* receiving; a handler gets to send a pong only by receiving a ping; and
\* neither step sends to another websocket or changes the registry.
C33_PingPong ==
    [][ /\ (fin'.who = "frame" /\ fin'.f.kind = "ping") =>
              /\ hs[fin'.f.cur].pc = "recv"
              /\ hs'[fin'.f.cur].pc = "pong"
              /\ OnlyHandler(fin'.f.cur)
        /\ \A s \in Sess :
              /\ (hs[s].pc = "pong" /\ hs'[s].pc = "recv") =>
                    /\ fin' = PongFin(s, "pong")
                    /\ OnlyHandler(s)
              /\ (hs[s].pc # "pong" /\ hs'[s].pc = "pong") =>
                    fin' = FrameFin(s, "ping", "return")
              /\ (fin'.who = "frame" /\ fin'.f.kind = "pong" /\ fin'.f.cur = s) =>
                    hs[s].pc = "pong"
      ]_vars

\* C33 witness: a websocket has been sent its pong while another websocket
\* is registered in its room
C33_Witness ==
    /\ fin.who = "frame"
    /\ fin.f.kind = "pong"
    /\ fin.f.cur \in AllRegistered(reg)
    /\ RoomCount(reg, hs[fin.f.cur].room) = 2

\* the records of the send_message requests that got past the tests of the
\* user: those reading their file or broadcasting, and the one that has
\* just ended
Admitted ==
    {http[h].f : h \in {g \in Https : http[g].pc \in {"read", "bcast"}}}
    \cup (IF fin.who = "http" THEN {fin.f} ELSE {})

\* C34: send_message from a user that does not exist or is banned is
\* rejected with 404 or 403: no request of such a user stores a row, reads
\* its file or broadcasts, and the rejected request has stored no row and
\* called send_json on no websocket.
C34_RejectUnknownOrBanned ==
    /\ \A f \in Admitted : f.acct = "ok"
    /\ fin.who = "reject" =>
          /\ fin.f.acct \in {"missing", "banned"}
          /\ fin.res = (IF fin.f.acct = "missing" THEN "404" ELSE "403")
          /\ fin.f.row = "none"
          /\ fin.f.snap = {} /\ fin.f.att = {}

\* C34 witness: a send_message of a banned user has been rejected while
\* websockets are registered in room 1
C34_Witness ==
    /\ fin.who = "reject"
    /\ fin.f.acct = "banned"
    /\ RoomCount(reg, 1) = 2

====
